---- MODULE Spec2Model ----
(***************************************************************************)
(* Model of peru/main.py: the command registry (commands_map, command),    *)
(* the longest-match dispatcher (find_matching_command), Main.run, the     *)
(* command handlers and main's error handling.                             *)
(***************************************************************************)
EXTENDS Integers, Sequences, FiniteSets, TLC

VARIABLES
    commands_map,      \* the registry, as the sequence of its items() in iteration order
    args,              \* self.args: the docopt argument model of the invocation
    matching_command,  \* Main.run's local: the handler found, or None
    pc,                \* the position of the invocation
    runtime,           \* self.runtime, once constructed
    invocations,       \* how many times this invocation called its handler
    overrides,         \* runtime.overrides: module name -> path, kept between invocations
    dirs,              \* the temporary directories that exist
    stdout,            \* what this invocation wrote to standard output, write by write
    calls,             \* the calls this invocation made into the collaborators
    exc,               \* the exception raised in this invocation, if any
    exit_code,         \* the argument of sys.exit, if main called it; 0 if main returned
    modules,           \* do_reup's local: the resolved modules
    dest,              \* do_copy's local
    tree,              \* do_copy's local
    history            \* what the two invocations before this one did to the override table

-----------------------------------------------------------------------------
(* Bounds. *)

\* the longest <modules>... list an invocation of reup is given
MaxModules == 2
\* the number of distinct paths registered in a registry other than the shipped one
MaxPaths == 3
\* the number of names tempfile.mkdtemp can still choose from
MaxTmp == 1

-----------------------------------------------------------------------------
(* Python values held by the argument model, and their truth value. *)

PyNone == [t |-> "none", b |-> FALSE, s |-> "", l |-> <<>>]
PyBool(b) == [t |-> "bool", b |-> b, s |-> "", l |-> <<>>]
PyStr(s) == [t |-> "str", b |-> FALSE, s |-> s, l |-> <<>>]
PyList(l) == [t |-> "list", b |-> FALSE, s |-> "", l |-> l]

\* bool(v): what `all(args[cmd] ...)`, `if not self.args[...]` and `if e.msg` test
truthy(v) ==
    CASE v.t = "bool" -> v.b
      [] v.t = "str" -> v.s # ""
      [] v.t = "list" -> Len(v.l) > 0
      [] OTHER -> FALSE

\* the handler-less result of find_matching_command
None == "None"

-----------------------------------------------------------------------------
(* The registry. *)

\* @command(*subcommand_list): commands_map[tuple(subcommand_list)] = f.
\* A key already present keeps its place and gets the new value.
command(m, cmds, f) ==
    IF \E i \in 1..Len(m) : m[i].cmds = cmds
    THEN [i \in 1..Len(m) |-> IF m[i].cmds = cmds THEN [cmds |-> cmds, f |-> f] ELSE m[i]]
    ELSE Append(m, [cmds |-> cmds, f |-> f])

\* the decorated methods of Main, in the order their decorators run
Registrations ==
    << [cmds |-> <<"sync">>, f |-> "do_sync"],
       [cmds |-> <<"build">>, f |-> "do_build"],
       [cmds |-> <<"reup">>, f |-> "do_reup"],
       [cmds |-> <<"override">>, f |-> "do_override"],
       [cmds |-> <<"override", "add">>, f |-> "do_override_add"],
       [cmds |-> <<"override", "delete">>, f |-> "do_override_delete"],
       [cmds |-> <<"copy">>, f |-> "do_copy"],
       [cmds |-> <<"clean">>, f |-> "do_clean"] >>

RECURSIVE Register(_, _)
Register(regs, m) ==
    IF regs = <<>> THEN m
    ELSE Register(Tail(regs), command(m, Head(regs).cmds, Head(regs).f))

\* commands_map once the module is imported
ShippedMap == Register(Registrations, <<>>)

\* commands_map.items() yields the entries in the dict's iteration order: insertion
\* order, or for a hash-ordered dict any order; the orders modelled are the
\* rotations of the insertion order and their reversals
Rotate(m, k) == [i \in 1..Len(m) |-> m[((i - 1 + k) % Len(m)) + 1]]
Reverse(m) == [i \in 1..Len(m) |-> m[Len(m) + 1 - i]]
IterOrders(m) ==
    {Rotate(m, k) : k \in 0..(Len(m) - 1)} \cup {Reverse(Rotate(m, k)) : k \in 0..(Len(m) - 1)}

ShippedMaps == IterOrders(ShippedMap)

-----------------------------------------------------------------------------
(* The dispatcher. *)

\* as matches, with any() for all()
matches_any(a, m) ==
    SelectSeq(m, LAMBDA e : \E i \in 1..Len(e.cmds) : truthy(a[e.cmds[i]]))

\* matches = [(cmds, f) for cmds, f in commands_map.items()
\*            if all(args[cmd] for cmd in cmds)]
matches(a, m) ==
    SelectSeq(m, LAMBDA e : \A i \in 1..Len(e.cmds) : truthy(a[e.cmds[i]]))

\* as longest_from, with >= for >
RECURSIVE longest_from_ge(_, _, _)
longest_from_ge(ms, i, longest) ==
    IF i > Len(ms) THEN longest
    ELSE longest_from_ge(ms, i + 1,
                         IF Len(ms[i].cmds) >= Len(longest.cmds) THEN ms[i] ELSE longest)

\* the loop over matches[1:], from the entry number i on, holding `longest`
RECURSIVE longest_from(_, _, _)
longest_from(ms, i, longest) ==
    IF i > Len(ms) THEN longest
    ELSE longest_from(ms, i + 1,
                      IF Len(ms[i].cmds) > Len(longest.cmds) THEN ms[i] ELSE longest)

\* as longest_match, without the loop: the first match
first_match(ms) == ms[1]

\* longest_cmds, longest_f after the loop, for a non-empty list of matches
longest_match(ms) == longest_from(ms, 2, ms[1])

find_matching_command(a, m) ==
    LET ms == matches(a, m)
    IN  IF ms = <<>> THEN None ELSE longest_match(ms).f

-----------------------------------------------------------------------------
(* Argument models. *)

Commands == {"sync", "build", "reup", "override", "list", "add", "delete",
             "copy", "clean", "help"}
Options == {"--help", "--version", "--force", "--quiet", "--verbose"}
Names == Commands \cup Options \cup
         {"<rules>", "<modules>", "<module>", "<path>", "<target>", "<dest>"}

\* what docopt gives a name the command line does not mention
Absent ==
    [n \in Names |->
        IF n \in Commands \cup Options THEN PyBool(FALSE)
        ELSE IF n \in {"<rules>", "<modules>"} THEN PyList(<<>>)
        ELSE PyNone]

\* the argument model `Absent` with the names of `u` set
With(u) == [n \in Names |-> IF n \in DOMAIN u THEN u[n] ELSE Absent[n]]

ModuleNames == {"a", "b"}
OverridePaths == {"p1", "p2"}

\* the sequences over S of length at most n
SeqsUpTo(S, n) == UNION {[1..k -> S] : k \in 0..n}

\* the argument models docopt.docopt(__doc__, argv, help=False) returns, one
\* usage line after the other, with <module> drawn from `mods` and <target> from
\* `targets`
DocoptArgs(mods, targets) ==
    {With("sync" :> PyBool(TRUE) @@ "--force" :> PyBool(f)) : f \in BOOLEAN}
    \cup {With("build" :> PyBool(TRUE) @@ "--force" :> PyBool(f) @@ "<rules>" :> PyList(r)) :
            f \in BOOLEAN, r \in {<<>>, <<"r">>}}
    \cup {With("reup" :> PyBool(TRUE) @@ "<modules>" :> PyList(ms)) :
            ms \in SeqsUpTo(ModuleNames, MaxModules)}
    \cup {With("override" :> PyBool(TRUE))}
    \cup {With("override" :> PyBool(TRUE) @@ "list" :> PyBool(TRUE))}
    \cup {With("override" :> PyBool(TRUE) @@ "add" :> PyBool(TRUE)
               @@ "<module>" :> PyStr(x) @@ "<path>" :> PyStr(p)) :
            x \in mods, p \in OverridePaths}
    \cup {With("override" :> PyBool(TRUE) @@ "delete" :> PyBool(TRUE)
               @@ "<module>" :> PyStr(x)) : x \in mods}
    \cup {With("copy" :> PyBool(TRUE) @@ "--force" :> PyBool(f)
               @@ "<target>" :> PyStr(t) @@ "<dest>" :> d) :
            f \in BOOLEAN, t \in targets, d \in {PyNone, PyStr("d")}}
    \cup {With("clean" :> PyBool(TRUE) @@ "--force" :> PyBool(f)) : f \in BOOLEAN}
    \cup {With(n :> PyBool(TRUE)) : n \in {"help", "--help", "--version"}}

\* the command lines the invocations are given
GrammarArgs == DocoptArgs(ModuleNames, {"t"})
\* the same, and the command lines whose <module> or <target> is the empty string
GrammarArgsEmpty == DocoptArgs(ModuleNames \cup {""}, {"t", ""})

\* argument models of any shape over the names the override commands read: a
\* caller of find_matching_command may pass any mapping
Values == {PyBool(TRUE), PyBool(FALSE), PyNone, PyStr(""), PyStr("a"),
           PyList(<<>>), PyList(<<"a">>)}
LooseArgs ==
    {With("override" :> o @@ "add" :> a @@ "<module>" :> x) :
        o \in Values, a \in Values, x \in {PyNone, PyStr(""), PyStr("a")}}

\* registries other than the shipped one: up to MaxPaths registrations of paths
\* of no, one or two names, each with a handler of its own
Tokens == {"override", "add", "<module>"}
Paths == {<<>>} \cup {<<t>> : t \in Tokens} \cup {<<t, u>> : t \in Tokens, u \in Tokens}
HandlerNames == <<"do_sync", "do_build", "do_reup", "do_override",
                  "do_override_add", "do_override_delete", "do_copy", "do_clean">>
OtherMaps ==
    {Register([i \in 1..Len(ps) |-> [cmds |-> ps[i], f |-> HandlerNames[i]]], <<>>) :
        ps \in SeqsUpTo(Paths, MaxPaths) \ {<<>>}}
OtherArgs ==
    {With("override" :> PyBool(o) @@ "add" :> PyBool(a) @@ "<module>" :> x) :
        o \in BOOLEAN, a \in BOOLEAN, x \in {PyNone, PyStr(""), PyStr("a")}}

-----------------------------------------------------------------------------
(* The collaborators: runtime.py, resolver.py, error.py, the cache, docopt. *)

__version__ == "peru 0.1"
\* the usage text, cut to its first line
__doc__ == "Usage:\n  peru sync [-fqv]\n  ..."

NoExc == [kind |-> "none", msg |-> ""]
PrintableError(msg) == [kind |-> "PrintableError", msg |-> msg]
\* what a collaborator may raise: the user-facing error, with or without a
\* message, or any other exception
Failures == {PrintableError(""), PrintableError("boom"), [kind |-> "OSError", msg |-> "io"]}
KeyError(key) == [kind |-> "KeyError", msg |-> key]
DocoptExit == [kind |-> "DocoptExit", msg |-> "usage"]

NoRuntime == [built |-> FALSE, force |-> FALSE]
\* Runtime(args, env)
Runtime(a) == [built |-> TRUE, force |-> truthy(a["--force"])]

\* runtime.set_override(name, path)
set_override(o, name, path) ==
    [k \in DOMAIN o \cup {name} |-> IF k = name THEN path ELSE o[k]]
\* runtime.get_override(module)
get_override(o, module) == o[module]

\* the modules peru.yaml declares
KnownModules == {"a", "b", "c"}
\* a module object, a tree
Module(name) == "<module " \o name \o ">"
Tree(target) == "<tree " \o target \o ">"
\* resolver.get_modules(runtime, names): the modules of the names, in their order
get_modules(names) == [k \in 1..Len(names) |-> Module(names[k])]
\* resolver.get_all_modules(runtime): every known module, in an order of the
\* resolver's choosing
AllModuleLists ==
    {l \in [1..Cardinality(KnownModules) -> {Module(n) : n \in KnownModules}] :
        \A j, k \in DOMAIN l : j # k => l[j] # l[k]}

\* a call into a collaborator and whether it returned
Call(op, arg, force, ok) == [op |-> op, arg |-> arg, force |-> force, ok |-> ok]

\* tempfile.mkdtemp(prefix='peru_copy_') names
TmpNames == {"peru_copy_" \o ToString(k) : k \in 1..MaxTmp}

-----------------------------------------------------------------------------
(* main, Main.run and the handlers. *)

persistent == <<commands_map, overrides, dirs>>
locals == <<runtime, invocations, stdout, calls, exc, exit_code, modules, dest, tree>>
vars == <<commands_map, args, matching_command, pc, overrides, dirs, history, locals>>

InitLocals ==
    /\ runtime = NoRuntime
    /\ invocations = 0
    /\ stdout = <<>>
    /\ calls = <<>>
    /\ exc = NoExc
    /\ exit_code = -1
    /\ modules = <<>>
    /\ dest = ""
    /\ tree = ""

Init ==
    /\ commands_map \in {ShippedMap, Reverse(ShippedMap)}
    /\ args = Absent
    /\ matching_command = "unset"
    /\ pc = "idle"
    /\ overrides = <<>>
    /\ dirs = {}
    /\ history = <<>>
    /\ InitLocals

\* raise e
Raise(e) == pc' = "raised" /\ exc' = e

\* main: Main().run(argv, env), up to self.args = docopt.docopt(__doc__, argv, help=False)
Main_run_docopt ==
    /\ pc = "idle"
    /\ \/ /\ args' \in GrammarArgs
          /\ pc' = "parsed"
          /\ UNCHANGED exc
       \/ /\ Raise(DocoptExit)
          /\ UNCHANGED args
    /\ UNCHANGED <<matching_command, persistent, history, runtime, invocations, stdout,
                   calls, exit_code, modules, dest, tree>>

\* as fallback_output, without the test of --version
fallback_output_usage(a) == <<__doc__>>

\* the else branch of Main.run: print(__version__) or print(__doc__, end="")
fallback_output(a) == IF truthy(a["--version"]) THEN <<__version__>> ELSE <<__doc__>>

\* Main.run: matching_command = find_matching_command(self.args); if matching_command: ... else: ...
Main_run_match ==
    /\ pc = "parsed"
    /\ matching_command' = find_matching_command(args, commands_map)
    /\ IF matching_command' # None
       THEN pc' = "matched" /\ UNCHANGED stdout
       ELSE pc' = "returned" /\ stdout' = stdout \o fallback_output(args)
    /\ UNCHANGED <<args, persistent, history, runtime, invocations, calls, exc,
                   exit_code, modules, dest, tree>>

\* Main.run: self.runtime = Runtime(self.args, env)
Main_run_runtime ==
    /\ pc = "matched"
    /\ \/ /\ runtime' = Runtime(args)
          /\ pc' = "invoke"
          /\ UNCHANGED exc
       \/ /\ \E e \in Failures : Raise(e)
          /\ UNCHANGED runtime
    /\ UNCHANGED <<args, matching_command, persistent, history, invocations, stdout,
                   calls, exit_code, modules, dest, tree>>

\* Main.run: matching_command(self)
Main_run_invoke ==
    /\ pc = "invoke"
    /\ pc' = matching_command
    /\ invocations' = invocations + 1
    /\ UNCHANGED <<args, matching_command, persistent, history, runtime, stdout,
                   calls, exc, exit_code, modules, dest, tree>>

\* one call into a collaborator: it returns, and the handler goes on at `then`, or it raises
Collaborate(op, arg, force, then) ==
    \/ /\ calls' = Append(calls, Call(op, arg, force, TRUE))
       /\ pc' = then
       /\ UNCHANGED exc
    \/ /\ calls' = Append(calls, Call(op, arg, force, FALSE))
       /\ \E e \in Failures : Raise(e)

do_sync ==
    /\ pc = "do_sync"
    /\ Collaborate("apply_imports", <<"computed">>, FALSE, "returned")
    /\ UNCHANGED <<args, matching_command, persistent, history, runtime, invocations,
                   stdout, exit_code, modules, dest, tree>>

do_build ==
    /\ pc = "do_build"
    /\ Collaborate("get_rules", args["<rules>"].l, FALSE, "do_build_rules")
    /\ UNCHANGED <<args, matching_command, persistent, history, runtime, invocations,
                   stdout, exit_code, modules, dest, tree>>

do_build_rules ==
    /\ pc = "do_build_rules"
    /\ Collaborate("do_build", args["<rules>"].l, FALSE, "returned")
    /\ UNCHANGED <<args, matching_command, persistent, history, runtime, invocations,
                   stdout, exit_code, modules, dest, tree>>

do_clean ==
    /\ pc = "do_clean"
    /\ Collaborate("apply_imports", <<"{}">>, FALSE, "returned")
    /\ UNCHANGED <<args, matching_command, persistent, history, runtime, invocations,
                   stdout, exit_code, modules, dest, tree>>

\* do_reup, up to the for loop: the modules named, or all of them
do_reup ==
    /\ pc = "do_reup"
    /\ IF ~truthy(args["<modules>"])
       THEN \E l \in AllModuleLists :
               \/ /\ modules' = l
                  /\ calls' = Append(calls, Call("get_all_modules", <<>>, FALSE, TRUE))
                  /\ pc' = "do_reup_loop"
                  /\ UNCHANGED exc
               \/ /\ calls' = Append(calls, Call("get_all_modules", <<>>, FALSE, FALSE))
                  /\ \E e \in Failures : Raise(e)
                  /\ UNCHANGED modules
       ELSE \/ /\ modules' = get_modules(args["<modules>"].l)
               /\ calls' = Append(calls, Call("get_modules", args["<modules>"].l, FALSE, TRUE))
               /\ pc' = "do_reup_loop"
               /\ UNCHANGED exc
            \/ /\ calls' = Append(calls, Call("get_modules", args["<modules>"].l, FALSE, FALSE))
               /\ \E e \in Failures : Raise(e)
               /\ UNCHANGED modules
    /\ UNCHANGED <<args, matching_command, persistent, history, runtime, invocations,
                   stdout, exit_code, dest, tree>>

\* the calls of module.reup made so far
reup_calls(cs) == SelectSeq(cs, LAMBDA c : c.op = "reup")

\* as reup_next, walking the list from its end
reup_next_reversed(ms, cs) == ms[Len(ms) - Len(reup_calls(cs))]

\* the module the for loop of do_reup is at
reup_next(ms, cs) == ms[Len(reup_calls(cs)) + 1]

\* as do_reup_loop, going on to the next module when one fails
do_reup_loop_continue ==
    /\ pc = "do_reup_loop"
    /\ IF Len(reup_calls(calls)) < Len(modules)
       THEN /\ \E ok \in BOOLEAN :
                  calls' = Append(calls, Call("reup", <<reup_next(modules, calls)>>, FALSE, ok))
            /\ UNCHANGED <<pc, exc>>
       ELSE pc' = "returned" /\ UNCHANGED <<calls, exc>>
    /\ UNCHANGED <<args, matching_command, persistent, history, runtime, invocations,
                   stdout, exit_code, modules, dest, tree>>

\* for module in modules: module.reup(self.runtime)
do_reup_loop ==
    /\ pc = "do_reup_loop"
    /\ IF Len(reup_calls(calls)) < Len(modules)
       THEN Collaborate("reup", <<reup_next(modules, calls)>>, FALSE, "do_reup_loop")
       ELSE pc' = "returned" /\ UNCHANGED <<calls, exc>>
    /\ UNCHANGED <<args, matching_command, persistent, history, runtime, invocations,
                   stdout, exit_code, modules, dest, tree>>

\* the module names in lexicographic order
NameOrder == <<"a", "b", "c">>
\* sorted(keys)
sorted(keys) == SelectSeq(NameOrder, LAMBDA n : n \in keys)

\* '{}: {}'.format(module, path)
format(module, path) == module \o ": " \o path

\* the lines do_override prints
override_lines(o) ==
    LET ks == sorted(DOMAIN o)
    IN  [k \in 1..Len(ks) |-> format(ks[k], get_override(o, ks[k]))]

do_override ==
    /\ pc = "do_override"
    /\ stdout' = stdout \o override_lines(overrides)
    /\ pc' = "returned"
    /\ UNCHANGED <<args, matching_command, persistent, history, runtime, invocations,
                   calls, exc, exit_code, modules, dest, tree>>

\* as override_added, keeping the path of a module the table already holds
override_added_keep(o, a) ==
    IF a["<module>"].s \in DOMAIN o THEN o
    ELSE set_override(o, a["<module>"].s, a["<path>"].s)

\* the table after do_override_add
override_added(o, a) == set_override(o, a["<module>"].s, a["<path>"].s)

do_override_add ==
    /\ pc = "do_override_add"
    /\ overrides' = override_added(overrides, args)
    /\ pc' = "returned"
    /\ UNCHANGED <<args, matching_command, commands_map, dirs, history, locals>>

\* del self.runtime.overrides[key]: the table without the key, for a key it holds
del(o, key) == [k \in DOMAIN o \ {key} |-> o[k]]

\* as del_raises, for a removal that ignores a missing key
del_raises_never(o, key) == FALSE

\* whether del raises KeyError
del_raises(o, key) == key \notin DOMAIN o

do_override_delete ==
    /\ pc = "do_override_delete"
    /\ LET key == args["<module>"].s
       IN  IF del_raises(overrides, key)
           THEN Raise(KeyError(key)) /\ UNCHANGED overrides
           ELSE overrides' = del(overrides, key) /\ pc' = "returned" /\ UNCHANGED exc
    /\ UNCHANGED <<args, matching_command, commands_map, dirs, history, runtime,
                   invocations, stdout, calls, exit_code, modules, dest, tree>>

\* do_copy: dest = tempfile.mkdtemp(prefix='peru_copy_') or dest = self.args['<dest>']
do_copy ==
    /\ pc = "do_copy"
    /\ IF ~truthy(args["<dest>"])
       THEN \/ \E d \in TmpNames \ dirs :
                 /\ dirs' = dirs \cup {d}
                 /\ dest' = d
                 /\ calls' = Append(calls, Call("mkdtemp", <<d>>, FALSE, TRUE))
                 /\ pc' = "do_copy_tree"
                 /\ UNCHANGED exc
            \/ /\ calls' = Append(calls, Call("mkdtemp", <<>>, FALSE, FALSE))
               /\ Raise([kind |-> "OSError", msg |-> "io"])
               /\ UNCHANGED <<dirs, dest>>
       ELSE /\ dest' = args["<dest>"].s
            /\ pc' = "do_copy_tree"
            /\ UNCHANGED <<dirs, calls, exc>>
    /\ UNCHANGED <<args, matching_command, commands_map, overrides, history, runtime,
                   invocations, stdout, exit_code, modules, tree>>

\* do_copy: tree = resolver.get_tree(self.runtime, self.args['<target>'])
do_copy_tree ==
    /\ pc = "do_copy_tree"
    /\ Collaborate("get_tree", <<args["<target>"].s>>, FALSE, "do_copy_export")
    /\ tree' = IF pc' = "do_copy_export" THEN Tree(args["<target>"].s) ELSE tree
    /\ UNCHANGED <<args, matching_command, persistent, history, runtime, invocations,
                   stdout, exit_code, modules, dest>>

\* as export_force, always forcing
export_force_always(r) == TRUE

\* the force argument of export_tree
export_force(r) == r.force

\* do_copy: self.runtime.cache.export_tree(tree, dest, force=self.runtime.force)
do_copy_export ==
    /\ pc = "do_copy_export"
    /\ Collaborate("export_tree", <<tree, dest>>, export_force(runtime), "do_copy_print")
    /\ UNCHANGED <<args, matching_command, persistent, history, runtime, invocations,
                   stdout, exit_code, modules, dest, tree>>

\* what do_copy prints once export_tree has returned
copy_output(a, d) == IF ~truthy(a["<dest>"]) THEN <<d>> ELSE <<>>

\* do_copy: if not self.args['<dest>']: print(dest)
do_copy_print ==
    /\ pc = "do_copy_print"
    /\ stdout' = stdout \o copy_output(args, dest)
    /\ pc' = "returned"
    /\ UNCHANGED <<args, matching_command, persistent, history, runtime, invocations,
                   calls, exc, exit_code, modules, dest, tree>>

\* print_red(msg): the writes to sys.stdout, on a terminal or not
print_red(msg, isatty) ==
    IF isatty THEN <<"\\x1b[31m", msg, "\\x1b[39m">> ELSE <<msg>>

\* as except_output, without the test of e.msg
except_output_always(e, isatty) == print_red(e.msg, isatty)

\* what main's handler of PrintableError writes
except_output(e, isatty) == IF e.msg # "" THEN print_red(e.msg, isatty) ELSE <<>>

\* the argument of sys.exit in main's handler of PrintableError
except_exit_code == 1

\* main: Main().run returned
main_returns ==
    /\ pc = "returned"
    /\ pc' = "exited"
    /\ exit_code' = 0
    /\ UNCHANGED <<args, matching_command, persistent, history, runtime, invocations,
                   stdout, calls, exc, modules, dest, tree>>

\* whether `except PrintableError as e` catches the exception
caught(e) == e.kind = "PrintableError"

\* main: except PrintableError as e: if e.msg: print_red(e.msg); sys.exit(1)
main_except ==
    /\ pc = "raised"
    /\ caught(exc)
    /\ \E isatty \in BOOLEAN : stdout' = stdout \o except_output(exc, isatty)
    /\ exit_code' = except_exit_code
    /\ pc' = "exited"
    /\ UNCHANGED <<args, matching_command, persistent, history, runtime, invocations,
                   calls, exc, modules, dest, tree>>

\* main: any other exception leaves main
main_propagates ==
    /\ pc = "raised"
    /\ ~caught(exc)
    /\ pc' = "crashed"
    /\ UNCHANGED <<args, matching_command, persistent, history, locals>>

\* what an invocation that ended leaves in `history`: the module and the path of
\* an `override add` that succeeded, nothing else
Did ==
    IF matching_command = "do_override_add" /\ pc = "exited" /\ exit_code = 0
    THEN <<args["<module>"].s, args["<path>"].s>>
    ELSE <<>>

\* the last two elements of a sequence
LastTwo(h) == IF Len(h) <= 2 THEN h ELSE SubSeq(h, Len(h) - 1, Len(h))

\* the process ended; the next invocation of peru starts, with the same files
NextInvocation ==
    /\ pc \in {"exited", "crashed"}
    /\ history' = LastTwo(Append(history, Did))
    /\ pc' = "idle"
    /\ args' = Absent
    /\ matching_command' = "unset"
    /\ runtime' = NoRuntime
    /\ invocations' = 0
    /\ stdout' = <<>>
    /\ calls' = <<>>
    /\ exc' = NoExc
    /\ exit_code' = -1
    /\ modules' = <<>>
    /\ dest' = ""
    /\ tree' = ""
    /\ UNCHANGED persistent

Next ==
    \/ Main_run_docopt
    \/ Main_run_match
    \/ Main_run_runtime
    \/ Main_run_invoke
    \/ do_sync
    \/ do_build
    \/ do_build_rules
    \/ do_reup
    \/ do_reup_loop
    \/ do_override
    \/ do_override_add
    \/ do_override_delete
    \/ do_copy
    \/ do_copy_tree
    \/ do_copy_export
    \/ do_copy_print
    \/ do_clean
    \/ main_returns
    \/ main_except
    \/ main_propagates
    \/ NextInvocation

Spec == Init /\ [][Next]_vars

-----------------------------------------------------------------------------
(* The dispatcher alone, on any registry and any argument model. *)

InitDispatch ==
    /\ \/ commands_map \in ShippedMaps /\ args \in GrammarArgsEmpty \cup LooseArgs
       \/ commands_map \in OtherMaps /\ args \in OtherArgs
    /\ matching_command = "unset"
    /\ pc = "start"
    /\ overrides = <<>>
    /\ dirs = {}
    /\ history = <<>>
    /\ InitLocals

Dispatch ==
    /\ pc = "start"
    /\ matching_command' = find_matching_command(args, commands_map)
    /\ pc' = "dispatched"
    /\ UNCHANGED <<commands_map, args, persistent, history, locals>>

NextDispatch == Dispatch

SpecDispatch == InitDispatch /\ [][NextDispatch]_vars

-----------------------------------------------------------------------------
(* Vocabulary of the properties. *)

Entries(m) == {m[i] : i \in DOMAIN m}
TokenSet(cmds) == {cmds[i] : i \in DOMAIN cmds}
\* every name of the path is truthy in the argument model
AllTruthy(a, cmds) == \A t \in TokenSet(cmds) : truthy(a[t])
Candidates == {e \in Entries(commands_map) : AllTruthy(args, e.cmds)}
Count(seq, x) == Cardinality({i \in DOMAIN seq : seq[i] = x})
IsPrefix(s, t) == Len(s) <= Len(t) /\ \A i \in DOMAIN s : s[i] = t[i]

-----------------------------------------------------------------------------
(* C1: nested paths. *)

\* B's token set strictly includes A's and every token of B is truthy
C1_Nested(A, B) ==
    /\ TokenSet(A.cmds) \subseteq TokenSet(B.cmds)
    /\ TokenSet(A.cmds) # TokenSet(B.cmds)
    /\ AllTruthy(args, B.cmds)

\* the path is not empty and repeats no name
WellFormed(cmds) == cmds # <<>> /\ Cardinality(TokenSet(cmds)) = Len(cmds)

\* C1 as stated, for the registries whose paths are not empty and repeat no name:
\* if A and B are registered, B's token set is a strict superset of A's and B's
\* tokens are all truthy, the dispatcher returns B's handler and never A's.
C1_Original ==
    (pc = "dispatched" /\ \A e \in Entries(commands_map) : WellFormed(e.cmds)) =>
        \A A \in Entries(commands_map), B \in Entries(commands_map) :
            C1_Nested(A, B) => matching_command = B.f /\ matching_command # A.f

\* C1 as amended: if moreover B's tuple is longer than A's, the dispatcher never
\* selects A; it returns the handler of a candidate at least as long as B, and
\* B's own handler when every other candidate is shorter than B.
C1_LongerWins ==
    pc = "dispatched" =>
        \A A \in Entries(commands_map), B \in Entries(commands_map) :
            (C1_Nested(A, B) /\ Len(A.cmds) < Len(B.cmds)) =>
                /\ matching_command # A.f
                /\ \E C \in Candidates :
                      C.f = matching_command /\ Len(C.cmds) >= Len(B.cmds)
                /\ (\A C \in Candidates \ {B} : Len(C.cmds) < Len(B.cmds))
                      => matching_command = B.f

\* a registry other than the shipped one, three candidates, and the nested pair's
\* longer path dispatched
C1_Witness ==
    /\ pc = "dispatched"
    /\ commands_map \notin ShippedMaps
    /\ Cardinality(Candidates) = 3
    /\ \E A \in Entries(commands_map), B \in Entries(commands_map) :
          C1_Nested(A, B) /\ Len(A.cmds) < Len(B.cmds) /\ matching_command = B.f

-----------------------------------------------------------------------------
(* C9: falsy names. *)

\* the positional groups the usage text requires after a command
RequiredGroups(f) ==
    CASE f = "do_override_add" -> {"<module>", "<path>"}
      [] f = "do_override_delete" -> {"<module>"}
      [] f = "do_copy" -> {"<target>"}
      [] OTHER -> {}

\* C9 as stated, on the argument models docopt returns: a shipped path whose
\* required positional groups are absent or falsy is never a candidate, and so
\* never dispatched, even if its command names are truthy.
C9_Original ==
    (pc = "dispatched" /\ commands_map \in ShippedMaps /\ args \in GrammarArgsEmpty) =>
        \A e \in Entries(commands_map) :
            (\E g \in RequiredGroups(e.f) : ~truthy(args[g])) =>
                e \notin Entries(matches(args, commands_map)) /\ matching_command # e.f

\* C9 as amended: a path is a candidate exactly when every name of its registered
\* tuple is truthy, so a False, None, empty string or empty sequence for a name of
\* the tuple keeps it from being dispatched; a positional group counts only if it
\* is in the tuple: a shipped path whose names are truthy and that is longer than
\* the other candidates is dispatched whatever its positional groups hold.
C9_TupleDecides ==
    pc = "dispatched" =>
        /\ \A e \in Entries(commands_map) :
              IF \E t \in TokenSet(e.cmds) : ~truthy(args[t])
              THEN e \notin Entries(matches(args, commands_map)) /\ matching_command # e.f
              ELSE e \in Entries(matches(args, commands_map)) /\ matching_command # None
        /\ commands_map \in ShippedMaps =>
              \A e \in Candidates :
                  (\A d \in Candidates \ {e} : Len(d.cmds) < Len(e.cmds))
                      => matching_command = e.f

\* a path with its command name truthy and its positional group, part of the
\* tuple, an empty string: the shorter path is dispatched instead
C9_Witness ==
    /\ pc = "dispatched"
    /\ args["override"] = PyBool(TRUE)
    /\ args["<module>"] = PyStr("")
    /\ \E e \in Entries(commands_map), d \in Entries(commands_map) :
          /\ e.cmds = <<"override", "<module>">>
          /\ d.cmds = <<"override">>
          /\ matching_command = d.f

-----------------------------------------------------------------------------
(* C10: determinism. *)

\* the handler the usage line of an argument model names
Expected(a) ==
    CASE truthy(a["sync"]) -> "do_sync"
      [] truthy(a["build"]) -> "do_build"
      [] truthy(a["reup"]) -> "do_reup"
      [] truthy(a["copy"]) -> "do_copy"
      [] truthy(a["clean"]) -> "do_clean"
      [] truthy(a["override"]) /\ truthy(a["add"]) -> "do_override_add"
      [] truthy(a["override"]) /\ truthy(a["delete"]) -> "do_override_delete"
      [] truthy(a["override"]) -> "do_override"
      [] OTHER -> None

\* the candidates no candidate is longer than
Maximal == {e \in Candidates : \A d \in Candidates : Len(d.cmds) <= Len(e.cmds)}

\* C10: for the shipped registry and an argument model of the usage grammar the
\* candidates have one longest element, the handler is the one the usage line
\* names, and it is the same in every iteration order; for any registry the
\* handler is that of the first candidate, in iteration order, that no candidate
\* is longer than.
C10_Deterministic ==
    pc = "dispatched" =>
        /\ (commands_map \in ShippedMaps /\ args \in GrammarArgsEmpty) =>
              /\ Candidates # {} => Cardinality(Maximal) = 1
              /\ matching_command = Expected(args)
              /\ \A m \in ShippedMaps : find_matching_command(args, m) = matching_command
        /\ IF Candidates = {}
           THEN matching_command = None
           ELSE \E i \in DOMAIN commands_map :
                   /\ commands_map[i].f = matching_command
                   /\ commands_map[i] \in Maximal
                   /\ \A j \in 1..(i - 1) : commands_map[j] \notin Maximal

\* `override add` dispatched from a registry iterated in another order than the
\* registrations
C10_Witness ==
    /\ pc = "dispatched"
    /\ commands_map \in ShippedMaps \ {ShippedMap}
    /\ args \in GrammarArgsEmpty
    /\ Cardinality(Candidates) = 2
    /\ matching_command = "do_override_add"

\* two longest candidates in a registry: the first in iteration order is returned
C10_TieWitness ==
    /\ pc = "dispatched"
    /\ Cardinality(Maximal) = 2
    /\ matching_command = commands_map[1].f

-----------------------------------------------------------------------------
(* C2: no match. *)

\* C2: once find_matching_command has run, it returned None exactly when no
\* registered path has all its names truthy; then no Runtime is constructed, no
\* handler is invoked, no collaborator is called, and the output is the version
\* string if --version is truthy and the usage text otherwise. A Runtime exists
\* only when a handler was matched, and exists whenever the handler was invoked.
C2_NoMatchFallsBack ==
    /\ matching_command # "unset" =>
          (matching_command = None <=>
              \A e \in Entries(commands_map) : ~AllTruthy(args, e.cmds))
    /\ matching_command = None =>
          /\ pc \in {"returned", "exited"}
          /\ runtime = NoRuntime
          /\ invocations = 0
          /\ calls = <<>>
          /\ exc = NoExc
          /\ stdout = IF truthy(args["--version"]) THEN <<__version__>> ELSE <<__doc__>>
    /\ runtime.built => matching_command \notin {None, "unset"}
    /\ invocations > 0 => runtime.built

\* `peru --version` ended: the version string is the output and nothing ran
C2_Witness ==
    /\ pc = "exited"
    /\ matching_command = None
    /\ truthy(args["--version"])
    /\ stdout = <<__version__>>
    /\ ~runtime.built

-----------------------------------------------------------------------------
(* C3: override add, then override. *)

\* C3: when `override` has printed, after an `override add X P` that succeeded in the
\* invocation before, the line `X: P` is printed exactly once; after
\* `override add X P1` then `override add X P2`, the line `X: P2` is printed
\* exactly once and, P1 differing from P2, no line `X: P1`.
C3_AddThenList ==
    (matching_command = "do_override" /\ pc \in {"returned", "exited"} /\ exc = NoExc
        /\ Len(history) > 0 /\ history[Len(history)] # <<>>) =>
        LET last == history[Len(history)]
        IN  /\ Count(stdout, format(last[1], last[2])) = 1
            /\ (Len(history) = 2 /\ history[1] # <<>> /\ history[1][1] = last[1]
                    /\ history[1][2] # last[2]) =>
                  Count(stdout, format(last[1], history[1][2])) = 0

\* `override add a p1`, `override add a p2`, `override`: the line is `a: p2`
C3_Witness ==
    /\ matching_command = "do_override"
    /\ pc = "returned"
    /\ history = << <<"a", "p1">>, <<"a", "p2">> >>
    /\ stdout = <<"a: p2">>

-----------------------------------------------------------------------------
(* C4: override delete. *)

\* what C4 says of one step
C4_DeleteStep ==
    /\ (pc = "do_override_delete" /\ args["<module>"].s \notin DOMAIN overrides) =>
          /\ pc' = "raised"
          /\ exc' = [kind |-> "KeyError", msg |-> args["<module>"].s]
          /\ overrides' = overrides
    /\ (pc = "raised" /\ exc.kind = "KeyError") =>
          /\ pc' = "crashed"
          /\ exit_code' = -1
          /\ stdout' = stdout
          /\ overrides' = overrides
    /\ (pc = "do_override_delete" /\ args["<module>"].s \in DOMAIN overrides) =>
          /\ pc' = "returned"
          /\ exc' = NoExc
          /\ DOMAIN overrides' = DOMAIN overrides \ {args["<module>"].s}
          /\ \A k \in DOMAIN overrides' : overrides'[k] = overrides[k]

\* C4: the step of do_override_delete on a key the table lacks raises KeyError,
\* which is no PrintableError, and leaves the table as it was; the step of main
\* on that exception lets it out, with no sys.exit and nothing printed; on a key
\* the table holds the step removes that entry and no other.
C4_Delete == [][C4_DeleteStep]_vars

\* `override delete b` on a table that holds only a: the process ended with the
\* KeyError, the table as it was
C4_Witness ==
    /\ pc = "crashed"
    /\ exc = [kind |-> "KeyError", msg |-> "b"]
    /\ matching_command = "do_override_delete"
    /\ DOMAIN overrides = {"a"}

\* `override delete a` on a table that holds a and b returned: b is left
C4_RemovedWitness ==
    /\ pc = "returned"
    /\ matching_command = "do_override_delete"
    /\ args["<module>"].s = "a"
    /\ DOMAIN overrides = {"b"}

-----------------------------------------------------------------------------
(* C5, C8: reup. *)

\* the modules module.reup was called on, in the order of the calls
Refreshed == [k \in DOMAIN reup_calls(calls) |-> reup_calls(calls)[k].arg[1]]

\* the resolver returned
Resolved == calls # <<>> /\ calls[1].ok

\* C5: in an invocation of reup, once the resolver returned: with no <modules> the
\* modules are all the known ones, each once, as get_all_modules returned them;
\* with <modules> they are the modules of the names given, in their order; reup is
\* called on nothing else, and when the handler returns it has been called on
\* every element of the list, in the order of the list, once for each.
C5_ReupSelection ==
    matching_command = "do_reup" =>
        /\ ~Resolved => Refreshed = <<>>
        /\ Resolved =>
              /\ IF ~truthy(args["<modules>"])
                 THEN /\ calls[1].op = "get_all_modules"
                      /\ Len(modules) = Cardinality(KnownModules)
                      /\ \A n \in KnownModules : Count(modules, Module(n)) = 1
                 ELSE /\ calls[1].op = "get_modules"
                      /\ Len(modules) = Len(args["<modules>"].l)
                      /\ \A k \in DOMAIN modules : modules[k] = Module(args["<modules>"].l[k])
              /\ \A k \in DOMAIN Refreshed : \E j \in DOMAIN modules : Refreshed[k] = modules[j]
              /\ pc \in {"returned", "exited"} /\ exc = NoExc => Refreshed = modules

\* `reup b a` returned: b was refreshed, then a
C5_Witness ==
    /\ matching_command = "do_reup"
    /\ pc = "returned"
    /\ args["<modules>"].l = <<"b", "a">>
    /\ Refreshed = <<Module("b"), Module("a")>>

\* what C8 says of one state
C8_State ==
    matching_command = "do_reup" =>
        LET rs == reup_calls(calls)
        IN  /\ IsPrefix(Refreshed, modules)
            /\ \A k \in 1..(Len(rs) - 1) : rs[k].ok
            /\ (rs # <<>> /\ ~rs[Len(rs)].ok) =>
                  pc \in {"raised", "exited", "crashed"} /\ exc \in Failures
            /\ (pc = "returned") =>
                  Len(rs) = Len(modules) /\ \A k \in DOMAIN rs : rs[k].ok

\* what C8 says of one step
C8_Step ==
    pc' # "idle" =>
        /\ IsPrefix(calls, calls')
        /\ (calls # <<>> /\ ~calls[Len(calls)].ok) => calls' = calls

\* C8: in every state of an invocation of reup the modules refreshed are a prefix
\* of the resolved list; only the last call of module.reup can have failed, and if
\* it has, the exception is out of the handler; when the handler returns every
\* module of the list has been refreshed. In every step of an invocation the
\* calls made stay made, and after a failed call no call is made.
C8_ReupStopsAtFirstFailure == []C8_State /\ [][C8_Step]_vars

\* of three modules the first was refreshed and the second failed: the third is
\* not refreshed and the process ended
C8_Witness ==
    /\ matching_command = "do_reup"
    /\ pc \in {"exited", "crashed"}
    /\ Len(modules) = 3
    /\ Len(reup_calls(calls)) = 2
    /\ reup_calls(calls)[1].ok
    /\ ~reup_calls(calls)[2].ok

-----------------------------------------------------------------------------
(* C6: copy. *)

ExportCalls == SelectSeq(calls, LAMBDA c : c.op = "export_tree")
MkdtempCalls == SelectSeq(calls, LAMBDA c : c.op = "mkdtemp" /\ c.ok)

\* what C6 says of one state
C6_State ==
    matching_command = "do_copy" =>
        /\ \A k \in DOMAIN ExportCalls :
              /\ ExportCalls[k].arg = <<Tree(args["<target>"].s), dest>>
              /\ ExportCalls[k].force = runtime.force
              /\ IF truthy(args["<dest>"])
                 THEN dest = args["<dest>"].s /\ MkdtempCalls = <<>>
                 ELSE Len(MkdtempCalls) = 1 /\ MkdtempCalls[1].arg = <<dest>> /\ dest \in dirs
        /\ (pc \in {"returned", "exited"} /\ exc = NoExc) =>
              /\ Len(ExportCalls) = 1
              /\ ExportCalls[1].ok
              /\ stdout = IF truthy(args["<dest>"]) THEN <<>> ELSE <<dest>>
        /\ \A k \in DOMAIN stdout :
              stdout[k] \in TmpNames \cup {"d"} =>
                  ExportCalls # <<>> /\ ExportCalls[Len(ExportCalls)].ok

\* what C6 says of one step
C6_Step ==
    (pc = "do_copy" /\ pc' = "do_copy_tree" /\ ~truthy(args["<dest>"])) =>
        dest' \notin dirs /\ dest' \in dirs' /\ dest' \in TmpNames

\* C6: in every state of an invocation of copy, export_tree is called with the
\* tree of <target>, the destination and force = runtime.force; the destination is
\* <dest> if given, and no directory is made, or else the directory mkdtemp made;
\* when the handler returns export_tree has returned, once, and the output is the
\* path of the temporary directory if no <dest> was given and nothing otherwise;
\* a path is in the output only if export_tree returned. In every step, the
\* directory do_copy makes did not exist before.
C6_Copy == []C6_State /\ [][C6_Step]_vars

\* `copy -f t` returned: the tree was exported, forced, into the directory made,
\* whose path is the output
C6_Witness ==
    /\ matching_command = "do_copy"
    /\ pc = "returned"
    /\ ~truthy(args["<dest>"])
    /\ runtime.force
    /\ stdout = <<"peru_copy_1">>
    /\ ExportCalls = <<Call("export_tree", <<"<tree t>", "peru_copy_1">>, TRUE, TRUE)>>

\* `copy t d` returned: the tree was exported into d, and nothing printed
C6_DestWitness ==
    /\ matching_command = "do_copy"
    /\ pc = "returned"
    /\ ~runtime.force
    /\ stdout = <<>>
    /\ ExportCalls = <<Call("export_tree", <<"<tree t>", "d">>, FALSE, TRUE)>>

-----------------------------------------------------------------------------
(* C7: the outcome of main. *)

\* C7: the handler is invoked at most once; a run without an exception ends with
\* main returning (status 0), never with sys.exit(1); a run that raised a
\* PrintableError ends with sys.exit(1), its message written if and only if it is
\* not empty; any other exception leaves main, which calls no sys.exit.
C7_Outcome ==
    /\ invocations <= 1
    /\ pc = "exited" =>
          \/ exc = NoExc /\ exit_code = 0
          \/ /\ exc.kind = "PrintableError"
             /\ exit_code = 1
             /\ IF exc.msg = "" THEN stdout = <<>>
                ELSE Count(stdout, exc.msg) = 1 /\ stdout[(Len(stdout) + 1) \div 2] = exc.msg
    /\ pc = "crashed" =>
          exc.kind \notin {"none", "PrintableError"} /\ exit_code = -1
    /\ exit_code = 1 => exc.kind = "PrintableError"
    /\ exit_code = 0 => exc = NoExc /\ pc = "exited"
    /\ pc \notin {"exited"} => exit_code = -1

\* a PrintableError with an empty message: exit code 1 and nothing written
C7_Witness ==
    /\ pc = "exited"
    /\ exc = PrintableError("")
    /\ exit_code = 1
    /\ stdout = <<>>
    /\ invocations = 1

\* a PrintableError with a message, on a terminal: the message in red, exit code 1
C7_MessageWitness ==
    /\ pc = "exited"
    /\ exc = PrintableError("boom")
    /\ exit_code = 1
    /\ Len(stdout) = 3
    /\ stdout[2] = "boom"

====
